---- MODULE Spec2Model ----
(***************************************************************************)
(* neko-ai backend: the database seeding script (backend/seed_database.ts) *)
(* and the chat server (backend/server.ts).                                *)
(*                                                                         *)
(* The seeding script is one async function run once per process.  Every   *)
(* `await` of an external call (MongoDB driver, Gemini model, embedding    *)
(* model) is a step whose outcome, resolve or reject, is chosen by the     *)
(* environment.  The database (collection, documents, indexes) outlives    *)
(* the process, so a second process run sees what the first one left.      *)
(***************************************************************************)
EXTENDS Integers, Sequences, FiniteSets, TLC

VARIABLES
    \* ---- seed_database.ts: the process
    pc,            \* position inside seedDatabase()
    run,           \* which execution of the script this is
    prev,          \* the previous execution: whether it completed, what it wrote
    exc,           \* the rejection being propagated ("none" when there is none)
    aborted,       \* the catch block of seedDatabase has been entered
    failed,        \* the awaited operations that rejected in this run
    failedItem,    \* index of the record whose embed/insert rejected (0: none)
    ops,           \* external calls issued by this run, in issue order
    console,       \* lines written to the console by this run
    closeCalls,    \* how many times client.close() was called in this run
    connected,     \* the MongoClient holds an open connection
    response,      \* llm.invoke's response content
    syntheticData, \* the parsed Item[]
    records,       \* recordsWithSummaries
    nextIdx,       \* for-of position: index of the next record to hand out
    inflight,      \* fromDocuments calls awaiting completion: <<index, phase>>
    written,       \* documents inserted by this run
    \* ---- the database (persists across runs)
    collExists,    \* inventory_database.items exists
    docs,          \* documents of the items collection, in insertion order
    indexes,       \* regular indexes of the collection
    searchIndexes, \* search indexes of the collection
    idxBefore,     \* <<indexes, searchIndexes>> when createVectorSearchIndex began
    \* ---- server.ts
    srv,           \* position inside startServer()
    clock,         \* Date.now()
    rootReplies,   \* replies sent by GET /
    reqs           \* per POST /chat request: handler state

seedVars == <<pc, run, prev, exc, aborted, failed, failedItem, ops, console, closeCalls,
              connected, response, syntheticData, records, nextIdx, inflight,
              written>>
dbVars == <<collExists, docs, indexes, searchIndexes, idxBefore>>
srvVars == <<srv, clock, rootReplies, reqs>>
vars == <<seedVars, dbVars, srvVars>>

(***************************************************************************)
(* Bounds of the model                                                     *)
(***************************************************************************)
MaxItems == 2      \* longest array the model returns
MaxRuns == 2       \* executions of the script
MaxPrior == 1      \* documents in the collection before the first run
MaxClock == 11     \* last value of the millisecond clock
NumReqs == 2       \* POST /chat requests
MaxRootReplies == 1  \* GET / requests

(***************************************************************************)
(* Number -> string, as a template literal or Number.prototype.toString    *)
(* renders a non-negative integer: its decimal digits.                     *)
(***************************************************************************)
Digit(d) == CASE d = 0 -> "0" [] d = 1 -> "1" [] d = 2 -> "2" [] d = 3 -> "3"
              [] d = 4 -> "4" [] d = 5 -> "5" [] d = 6 -> "6" [] d = 7 -> "7"
              [] d = 8 -> "8" [] d = 9 -> "9"

RECURSIVE ToStr(_)
ToStr(n) == IF n < 10 THEN <<Digit(n)>>
            ELSE Append(ToStr(n \div 10), Digit(n % 10))

(***************************************************************************)
(* itemSchema and the records a model response can carry                   *)
(***************************************************************************)
RequiredFields == {"item_id", "item_name", "item_description", "brand",
                   "manufacturer_address", "prices", "categories", "user_reviews"}
AddressFields == {"street", "city", "state", "postal_code", "country"}
PriceFields == {"full_price", "sale_price"}

\* z.object(...).parse succeeds: every required key is present (notes is optional)
Conforms(r) ==
    /\ RequiredFields \subseteq DOMAIN r
    /\ AddressFields \subseteq DOMAIN r.manufacturer_address
    /\ PriceFields \subseteq DOMAIN r.prices

Sofa ==
    [item_id |-> "F1", item_name |-> "Sofa", item_description |-> "Three seats",
     brand |-> "Acme",
     manufacturer_address |-> [street |-> "1 Main", city |-> "Milan", state |-> "MI",
                               postal_code |-> "20100", country |-> "Italy"],
     prices |-> [full_price |-> 12, sale_price |-> 9],
     categories |-> <<"seating", "living room">>,
     user_reviews |-> <<[review_date |-> "2024-01-01", review_comment |-> "good",
                         rating |-> 5]>>,
     notes |-> "fragile"]

\* a valid Item without the optional notes
Desk ==
    [item_id |-> "F2", item_name |-> "Desk", item_description |-> "Oak desk",
     brand |-> "Birch",
     manufacturer_address |-> [street |-> "2 High", city |-> "Oslo", state |-> "OS",
                               postal_code |-> "0150", country |-> "Norway"],
     prices |-> [full_price |-> 100, sale_price |-> 80],
     categories |-> <<>>,
     user_reviews |-> <<>>]

\* a record that does not satisfy itemSchema: brand and prices are missing
Lamp ==
    [item_id |-> "F3", item_name |-> "Lamp", item_description |-> "Floor lamp",
     manufacturer_address |-> [street |-> "3 Low", city |-> "Lyon", state |-> "RH",
                               postal_code |-> "69000", country |-> "France"],
     categories |-> <<"lighting">>,
     user_reviews |-> <<>>]

RawRecords == {Sofa, Desk, Lamp}

SeqsUpTo(S, n) == UNION {[1..k -> S] : k \in 0..n}

\* response.content: text that is not the JSON the parser expects, or a JSON array
Responses ==
    {[json |-> FALSE, array |-> <<>>]}
        \cup {[json |-> TRUE, array |-> a] : a \in SeqsUpTo(RawRecords, MaxItems)}

\* parser.parse(text), parser = StructuredOutputParser.fromZodSchema(z.array(itemSchema)):
\* rejects unless the text is a JSON array whose every element satisfies itemSchema
\* variant: a parser with a per-record fallback, keeping the conforming elements
ParseValidSubset(text) ==
    [ok |-> text.json, items |-> SelectSeq(text.array, Conforms)]
Parse(text) ==
    IF text.json /\ \A i \in 1..Len(text.array) : Conforms(text.array[i])
    THEN [ok |-> TRUE, items |-> text.array]
    ELSE [ok |-> FALSE, items |-> <<>>]

(***************************************************************************)
(* createItemSummary: the segments of the template, in template order      *)
(***************************************************************************)
ReviewText(review) ==
    <<"Rated ", ToStr(review.rating), " on ", review.review_date, ": ",
      review.review_comment, " ">>

createItemSummary(item) ==
    [basicInfo |-> <<item.item_name, " ", item.item_description,
                     " from the brand ", item.brand>>,
     manufacturerDetails |-> <<"Made in ", item.manufacturer_address.country>>,
     categories |-> item.categories,
     userReviews |-> [i \in 1..Len(item.user_reviews) |->
                         ReviewText(item.user_reviews[i])],
     price |-> <<"At full price it costs: ", ToStr(item.prices.full_price),
                 " USD, On sale it costs: ", ToStr(item.prices.sale_price), " USD">>,
     notes |-> IF "notes" \in DOMAIN item THEN item.notes ELSE "undefined"]

\* syntheticData.map(record => ({pageContent, metadata})) under Promise.all:
\* the results keep the order of the input
Summarize(data) ==
    [i \in 1..Len(data) |->
        [pageContent |-> createItemSummary(data[i]), metadata |-> data[i]]]

(***************************************************************************)
(* The embedding model and the document MongoDBAtlasVectorSearch stores    *)
(***************************************************************************)
NumDimensions == 768

\* GoogleGenerativeAIEmbeddings(text-embedding-004).embedDocuments([text])[0]
Embed(text) == [numDimensions |-> NumDimensions, of |-> text]

\* {[textKey]: pageContent, [embeddingKey]: vector, ...metadata}
StoredDoc(record) ==
    record.metadata @@ ("embedding-text" :> record.pageContent)
                    @@ ("embedding" :> Embed(record.pageContent))

(***************************************************************************)
(* The database: collection.deleteMany({}), collection.dropIndexes(),      *)
(* collection.createSearchIndex(...).  dropIndexes removes every regular   *)
(* index except the mandatory _id_ one; search indexes are a catalogue of  *)
(* their own, which dropIndexes does not touch and in which names are      *)
(* unique (creating a second index of the same name is rejected).          *)
(***************************************************************************)
\* variant: a clear that deletes nothing
DeleteManyKeeps(ds) == ds
DeleteMany(ds) == <<>>

DropIndexes(ix) == ix \cap {"_id_"}

\* variant: an index definition of another geometry
vectorSearchIdxWrongGeometry ==
    [name |-> "vector_index", type |-> "vectorSearch", path |-> "embedding",
     numDimensions |-> 1536, similarity |-> "euclidean"]
vectorSearchIdx ==
    [name |-> "vector_index", type |-> "vectorSearch", path |-> "embedding",
     numDimensions |-> NumDimensions, similarity |-> "cosine"]

NameTaken(sx, idx) == \E e \in sx : e.name = idx.name
CreateSearchIndex(sx, idx) == sx \cup {idx}

\* what a collection can hold before the script runs
StaleVectorIdx ==
    [name |-> "vector_index", type |-> "vectorSearch", path |-> "embedding",
     numDimensions |-> 1536, similarity |-> "euclidean"]
OtherSearchIdx ==
    [name |-> "text_index", type |-> "search", path |-> "embedding-text",
     numDimensions |-> 0, similarity |-> "none"]
PriorSearchIndexes == {{}, {StaleVectorIdx}, {OtherSearchIdx}}
PriorIndexes == {{"_id_"}, {"_id_", "brand_1"}}
PriorDocs == SeqsUpTo({StoredDoc(r) : r \in {Summarize(<<Sofa>>)[1],
                                              Summarize(<<Desk>>)[1]}}, MaxPrior)

(***************************************************************************)
(* Control flow of seedDatabase                                            *)
(***************************************************************************)
IndexStages == {"dropIndexes", "createSearchIndex"}

\* the statement that follows p when p completes without throwing
\* variant: generation and summaries before the clear
NextStepGenerateBeforeClear(p) ==
    CASE p = "connect" -> "ping"
      [] p = "ping" -> "listCollections"
      [] p = "createCollection" -> "dropIndexes"
      [] p = "dropIndexes" -> "createSearchIndex"
      [] p = "createSearchIndex" -> "invoke"
      [] p = "indexCatch" -> "invoke"
      [] p = "invoke" -> "parse"
      [] p = "parse" -> "summarize"
      [] p = "summarize" -> "deleteMany"
      [] p = "deleteMany" -> "persist"
      [] p = "persist" -> "finally"
NextStep(p) ==
    CASE p = "connect" -> "ping"
      [] p = "ping" -> "listCollections"
      [] p = "createCollection" -> "dropIndexes"
      [] p = "dropIndexes" -> "createSearchIndex"
      [] p = "createSearchIndex" -> "deleteMany"
      [] p = "indexCatch" -> "deleteMany"
      [] p = "deleteMany" -> "invoke"
      [] p = "invoke" -> "parse"
      [] p = "parse" -> "summarize"
      [] p = "summarize" -> "persist"
      [] p = "persist" -> "finally"

\* if (collections.length === 0) createCollection else log
SetupBranch(exists) == IF exists THEN "dropIndexes" ELSE "createCollection"

\* where a rejection of p is caught: the try of createVectorSearchIndex encloses
\* the two index calls, the try of seedDatabase everything else
\* variant: createVectorSearchIndex without its own try/catch
HandlerNoInnerTry(p) == "catch"
\* variant: a loop that isolates per-item failures and goes on
HandlerSkipItem(p) ==
    IF p \in IndexStages THEN "indexCatch"
    ELSE IF p \in {"embed", "insert"} THEN "persist" ELSE "catch"
Handler(p) == IF p \in IndexStages THEN "indexCatch" ELSE "catch"

\* finally { await client.close() } follows the catch block
\* variant: close() at the end of the try block instead of in finally
AfterCatchNoFinally == "settled"
AfterCatch == "finally"

\* for (const record of ...) { await fromDocuments([record], ...) }: the next
\* record is handed out only when no call is awaited
\* variant: all fromDocuments calls started at once
CanIssueAll(pending) == TRUE
CanIssue(pending) == pending = {}

Call(name, i) == ops' = Append(ops, <<name, i>>)
\* a console line: its text and the value printed after it
Line(text) == <<text, "">>
Log(text) == console' = console \cup {Line(text)}
Resolve(p) == pc' = NextStep(p) /\ UNCHANGED <<exc, failed>>
Reject(p) == pc' = Handler(p) /\ exc' = p /\ failed' = failed \cup {p}

(***************************************************************************)
(* seedDatabase, one action per awaited call or block                      *)
(***************************************************************************)
FreshProcess ==
    /\ pc = "connect"
    /\ exc = "none"
    /\ aborted = FALSE
    /\ failed = {}
    /\ failedItem = 0
    /\ ops = <<>>
    /\ console = {}
    /\ closeCalls = 0
    /\ connected = FALSE
    /\ response = [json |-> FALSE, array |-> <<>>]
    /\ syntheticData = <<>>
    /\ records = <<>>
    /\ nextIdx = 1
    /\ inflight = {}
    /\ written = 0

NoServer ==
    /\ srv = "off"
    /\ clock = 0
    /\ rootReplies = 0
    /\ reqs = <<>>

Init ==
    /\ FreshProcess
    /\ run = 1
    /\ prev = [completed |-> FALSE, written |-> 0]
    /\ collExists \in BOOLEAN
    /\ docs \in IF collExists THEN PriorDocs ELSE {<<>>}
    /\ indexes \in IF collExists THEN PriorIndexes ELSE {{}}
    /\ searchIndexes \in IF collExists THEN PriorSearchIndexes ELSE {{}}
    /\ idxBefore = <<indexes, searchIndexes>>
    /\ NoServer

\* await client.connect()
Connect ==
    /\ pc = "connect"
    /\ Call("connect", 0)
    /\ \E ok \in BOOLEAN :
        IF ok THEN Resolve("connect") /\ connected' = TRUE
        ELSE Reject("connect") /\ UNCHANGED connected
    /\ UNCHANGED <<run, prev, aborted, failedItem, console, closeCalls, response,
                   syntheticData, records, nextIdx, inflight, written>>
    /\ UNCHANGED <<dbVars, srvVars>>

\* await client.db("admin").command({ping:1}); console.log(...)
Ping ==
    /\ pc = "ping"
    /\ Call("ping", 0)
    /\ \E ok \in BOOLEAN :
        IF ok THEN Resolve("ping") /\ Log("You have successfully connected to Mongodb")
        ELSE Reject("ping") /\ UNCHANGED console
    /\ UNCHANGED <<run, prev, aborted, failedItem, closeCalls, connected, response,
                   syntheticData, records, nextIdx, inflight, written>>
    /\ UNCHANGED <<dbVars, srvVars>>

\* setupDatabaseandCollection: listCollections({name: "items"}).toArray() and the branch
ListCollections ==
    /\ pc = "listCollections"
    /\ Call("listCollections", 0)
    /\ \E ok \in BOOLEAN :
        IF ok
        THEN /\ pc' = SetupBranch(collExists)
             /\ UNCHANGED <<exc, failed>>
             /\ console' = console \cup
                    ({Line("Setting up database and collection...")} \cup
                     IF collExists THEN {Line("'items' collection already exists")}
                     ELSE {})
        ELSE Reject("listCollections")
             /\ Log("Setting up database and collection...")
    /\ UNCHANGED <<run, prev, aborted, failedItem, closeCalls, connected, response,
                   syntheticData, records, nextIdx, inflight, written>>
    /\ UNCHANGED <<dbVars, srvVars>>

\* await db.createCollection("items")
CreateCollection ==
    /\ pc = "createCollection"
    /\ Call("createCollection", 0)
    /\ \E ok \in BOOLEAN :
        IF ok
        THEN /\ Resolve("createCollection")
             /\ collExists' = TRUE
             /\ indexes' = {"_id_"}
             /\ Log("Created 'items' collection")
        ELSE Reject("createCollection") /\ UNCHANGED <<collExists, indexes, console>>
    /\ UNCHANGED <<run, prev, aborted, failedItem, closeCalls, connected, response,
                   syntheticData, records, nextIdx, inflight, written>>
    /\ UNCHANGED <<docs, searchIndexes, idxBefore, srvVars>>

\* createVectorSearchIndex: await collection.dropIndexes()
DropIndexesStep ==
    /\ pc = "dropIndexes"
    /\ Call("dropIndexes", 0)
    /\ idxBefore' = <<indexes, searchIndexes>>
    /\ \E ok \in BOOLEAN :
        IF ok THEN Resolve("dropIndexes") /\ indexes' = DropIndexes(indexes)
        ELSE Reject("dropIndexes") /\ UNCHANGED indexes
    /\ UNCHANGED <<run, prev, aborted, failedItem, console, closeCalls, connected, response,
                   syntheticData, records, nextIdx, inflight, written>>
    /\ UNCHANGED <<collExists, docs, searchIndexes, srvVars>>

\* createVectorSearchIndex: await collection.createSearchIndex(vectorSearchIdx)
CreateSearchIndexStep ==
    /\ pc = "createSearchIndex"
    /\ Call("createSearchIndex", 0)
    /\ \E ok \in BOOLEAN :
        IF ok /\ ~NameTaken(searchIndexes, vectorSearchIdx)
        THEN /\ Resolve("createSearchIndex")
             /\ searchIndexes' = CreateSearchIndex(searchIndexes, vectorSearchIdx)
             /\ console' = console \cup
                    {Line("creating vector search index..."),
                     Line("Vector search index created successfully")}
        ELSE /\ Reject("createSearchIndex")
             /\ UNCHANGED searchIndexes
             /\ Log("creating vector search index...")
    /\ UNCHANGED <<run, prev, aborted, failedItem, closeCalls, connected, response,
                   syntheticData, records, nextIdx, inflight, written>>
    /\ UNCHANGED <<collExists, docs, indexes, idxBefore, srvVars>>

\* createVectorSearchIndex: catch(error) { console.error(...) }, then return
IndexCatch ==
    /\ pc = "indexCatch"
    /\ exc' = "none"
    /\ Log("Error creating vector search index:")
    /\ pc' = NextStep("indexCatch")
    /\ UNCHANGED <<run, prev, aborted, failed, failedItem, ops, closeCalls, connected,
                   response, syntheticData, records, nextIdx, inflight, written>>
    /\ UNCHANGED <<dbVars, srvVars>>

\* await collection.deleteMany({}); console.log(...)
DeleteManyStep ==
    /\ pc = "deleteMany"
    /\ Call("deleteMany", 0)
    /\ \E ok \in BOOLEAN :
        IF ok
        THEN /\ Resolve("deleteMany")
             /\ docs' = DeleteMany(docs)
             /\ Log("Cleared existing data from items collection")
        ELSE Reject("deleteMany") /\ UNCHANGED <<docs, console>>
    /\ UNCHANGED <<run, prev, aborted, failedItem, closeCalls, connected, response,
                   syntheticData, records, nextIdx, inflight, written>>
    /\ UNCHANGED <<collExists, indexes, searchIndexes, idxBefore, srvVars>>

\* generateSyntheticData: const response = await llm.invoke(prompt)
Invoke ==
    /\ pc = "invoke"
    /\ Call("invoke", 0)
    /\ Log("Generating synthetic data...")
    /\ \E ok \in BOOLEAN :
        IF ok THEN Resolve("invoke") /\ response' \in Responses
        ELSE Reject("invoke") /\ UNCHANGED response
    /\ UNCHANGED <<run, prev, aborted, failedItem, closeCalls, connected,
                   syntheticData, records, nextIdx, inflight, written>>
    /\ UNCHANGED <<dbVars, srvVars>>

\* generateSyntheticData: return parser.parse(response.content)
ParseStep ==
    /\ pc = "parse"
    /\ IF Parse(response).ok
       THEN Resolve("parse") /\ syntheticData' = Parse(response).items
       ELSE Reject("parse") /\ UNCHANGED syntheticData
    /\ UNCHANGED <<run, prev, aborted, failedItem, ops, console, closeCalls, connected,
                   response, records, nextIdx, inflight, written>>
    /\ UNCHANGED <<dbVars, srvVars>>

\* const recordsWithSummaries = await Promise.all(syntheticData.map(...))
SummarizeStep ==
    /\ pc = "summarize"
    /\ records' = Summarize(syntheticData)
    /\ nextIdx' = 1
    /\ Resolve("summarize")
    /\ UNCHANGED <<run, prev, aborted, failedItem, ops, console, closeCalls, connected,
                   response, syntheticData, inflight, written>>
    /\ UNCHANGED <<dbVars, srvVars>>

\* for (const record of recordsWithSummaries): hand the next record to
\* MongoDBAtlasVectorSearch.fromDocuments([record], embeddings, config), which
\* first asks the embedding model for the vector
IssuePersist ==
    /\ pc = "persist"
    /\ nextIdx <= Len(records)
    /\ CanIssue(inflight)
    /\ Call("embed", nextIdx)
    /\ inflight' = inflight \cup {<<nextIdx, "embed">>}
    /\ nextIdx' = nextIdx + 1
    /\ UNCHANGED <<pc, run, prev, exc, aborted, failed, failedItem, console, closeCalls,
                   connected, response, syntheticData, records, written>>
    /\ UNCHANGED <<dbVars, srvVars>>

\* fromDocuments: the embedding call settles; on success the insert is issued
EmbedSettle(i) ==
    /\ <<i, "embed">> \in inflight
    /\ \E ok \in BOOLEAN :
        IF ok
        THEN /\ inflight' = (inflight \ {<<i, "embed">>}) \cup {<<i, "insert">>}
             /\ Call("insert", i)
             /\ UNCHANGED <<pc, exc, failed, failedItem>>
        ELSE /\ inflight' = inflight \ {<<i, "embed">>}
             /\ Reject("embed")
             /\ failedItem' = i
             /\ UNCHANGED ops
    /\ UNCHANGED <<run, prev, aborted, console, closeCalls, connected, response,
                   syntheticData, records, nextIdx, written>>
    /\ UNCHANGED <<dbVars, srvVars>>

\* fromDocuments: the insert settles; console.log("Successfully processed ...")
InsertSettle(i) ==
    /\ <<i, "insert">> \in inflight
    /\ inflight' = inflight \ {<<i, "insert">>}
    /\ \E ok \in BOOLEAN :
        IF ok
        THEN /\ docs' = Append(docs, StoredDoc(records[i]))
             /\ written' = written + 1
             /\ console' = console \cup
                    {<<"Successfully processed & saved record:",
                       records[i].metadata.item_id>>}
             /\ UNCHANGED <<pc, exc, failed, failedItem>>
        ELSE /\ Reject("insert")
             /\ failedItem' = i
             /\ UNCHANGED <<docs, written, console>>
    /\ UNCHANGED <<run, prev, aborted, ops, closeCalls, connected, response,
                   syntheticData, records, nextIdx>>
    /\ UNCHANGED <<collExists, indexes, searchIndexes, idxBefore, srvVars>>

\* the loop is exhausted: console.log('Database seeding completed')
PersistDone ==
    /\ pc = "persist"
    /\ nextIdx > Len(records)
    /\ inflight = {}
    /\ Log("Database seeding completed")
    /\ pc' = NextStep("persist")
    /\ UNCHANGED <<run, prev, exc, aborted, failed, failedItem, ops, closeCalls, connected,
                   response, syntheticData, records, nextIdx, inflight, written>>
    /\ UNCHANGED <<dbVars, srvVars>>

\* catch(error) { console.error('failed to seed database', error) }
Catch ==
    /\ pc = "catch"
    /\ exc' = "none"
    /\ aborted' = TRUE
    /\ Log("failed to seed database")
    /\ pc' = AfterCatch
    /\ UNCHANGED <<run, prev, failed, failedItem, ops, closeCalls, connected, response,
                   syntheticData, records, nextIdx, inflight, written>>
    /\ UNCHANGED <<dbVars, srvVars>>

\* finally { await client.close() }: a rejection of close leaves seedDatabase
\* rejected, with the connection in whichever state the driver left it
Close ==
    /\ pc = "finally"
    /\ Call("close", 0)
    /\ closeCalls' = closeCalls + 1
    /\ \E ok \in BOOLEAN :
        IF ok
        THEN /\ connected' = FALSE
             /\ pc' = "settled"
             /\ UNCHANGED <<exc, failed>>
        ELSE /\ connected' \in {connected, FALSE}
             /\ pc' = "topCatch"
             /\ exc' = "close"
             /\ failed' = failed \cup {"close"}
    /\ UNCHANGED <<run, prev, aborted, failedItem, console, response, syntheticData,
                   records, nextIdx, inflight, written>>
    /\ UNCHANGED <<dbVars, srvVars>>

\* seedDatabase().catch(console.error)
TopCatch ==
    /\ pc = "topCatch"
    /\ exc' = "none"
    /\ Log("console.error")
    /\ pc' = "settled"
    /\ UNCHANGED <<run, prev, aborted, failed, failedItem, ops, closeCalls, connected,
                   response, syntheticData, records, nextIdx, inflight, written>>
    /\ UNCHANGED <<dbVars, srvVars>>

\* the script is executed again, in a new process, against the same database
StartRun ==
    /\ pc = "settled"
    /\ inflight = {}
    /\ run < MaxRuns
    /\ run' = run + 1
    /\ prev' = [completed |-> ~aborted, written |-> written]
    /\ pc' = "connect"
    /\ exc' = "none"
    /\ aborted' = FALSE
    /\ failed' = {}
    /\ failedItem' = 0
    /\ ops' = <<>>
    /\ console' = {}
    /\ closeCalls' = 0
    /\ connected' = FALSE
    /\ response' = [json |-> FALSE, array |-> <<>>]
    /\ syntheticData' = <<>>
    /\ records' = <<>>
    /\ nextIdx' = 1
    /\ inflight' = {}
    /\ written' = 0
    /\ UNCHANGED <<dbVars, srvVars>>

RunStep ==
    \/ Connect
    \/ Ping
    \/ ListCollections
    \/ CreateCollection
    \/ DropIndexesStep
    \/ CreateSearchIndexStep
    \/ IndexCatch
    \/ DeleteManyStep
    \/ Invoke
    \/ ParseStep
    \/ SummarizeStep
    \/ IssuePersist
    \/ \E i \in 1..MaxItems : EmbedSettle(i)
    \/ \E i \in 1..MaxItems : InsertSettle(i)
    \/ PersistDone
    \/ Catch
    \/ Close
    \/ TopCatch

Next == RunStep \/ StartRun

Spec == Init /\ [][Next]_vars

\* every awaited call settles and the event loop runs what is runnable; whether
\* the script is executed again is up to the operator
FairSpec == Spec /\ WF_vars(RunStep)

(***************************************************************************)
(* Properties of seedDatabase                                              *)
(***************************************************************************)
HasOp(name) == \E k \in 1..Len(ops) : ops[k][1] = name
PosOf(name) == CHOOSE k \in 1..Len(ops) : ops[k][1] = name

\* position of a call in the source order of seedDatabase
Rank(op) ==
    CASE op[1] = "connect" -> 1
      [] op[1] = "ping" -> 2
      [] op[1] = "listCollections" -> 3
      [] op[1] = "createCollection" -> 4
      [] op[1] = "dropIndexes" -> 5
      [] op[1] = "createSearchIndex" -> 6
      [] op[1] = "deleteMany" -> 7
      [] op[1] = "invoke" -> 8
      [] op[1] = "embed" -> 8 + 2 * op[2] - 1
      [] op[1] = "insert" -> 8 + 2 * op[2]
      [] op[1] = "close" -> 8 + 2 * (MaxItems + 2)

InSourceOrder == \A k \in 1..Len(ops) - 1 : Rank(ops[k]) < Rank(ops[k + 1])

\* the document the script is to store for a generated record
ExpectedDoc(item, d) ==
    /\ d["embedding-text"] = createItemSummary(item)
    /\ d["embedding"].numDimensions = 768
    /\ d["embedding"].of = d["embedding-text"]
    /\ \A f \in DOMAIN item : d[f] = item[f]
    /\ DOMAIN d = DOMAIN item \cup {"embedding-text", "embedding"}

\* C1: in every run, whichever stage fails or succeeds, client.close() is
\* eventually called, exactly once, as the last external call of the run, with
\* no call still awaited; a run that is under way always reaches its end.
C1_CloseOnceAtEnd ==
    /\ [](pc = "settled" => closeCalls = 1)
    /\ [](closeCalls <= 1)
    /\ [](\A k \in 1..Len(ops) : ops[k][1] = "close" => k = Len(ops))
    /\ [](closeCalls > 0 => inflight = {} /\ HasOp("close"))
    /\ ((pc # "settled") ~> (pc = "settled" /\ closeCalls = 1))

C1_Witness ==
    /\ pc = "settled"
    /\ closeCalls = 1
    /\ "insert" \in failed
    /\ written > 0
    /\ ops[Len(ops)][1] = "close"

\* C2: a run that completes (nothing reached the catch block) with n generated
\* Items ends with exactly n documents, the i-th being the i-th Item with its
\* summary and its embedding, whatever the collection held before; so does a
\* second run after a first one that completed.
C2_ReseedReplaces ==
    (pc = "settled" /\ ~aborted) =>
        /\ Len(docs) = Len(response.array)
        /\ \A i \in 1..Len(docs) : ExpectedDoc(response.array[i], docs[i])

C2_Witness ==
    /\ run = 2
    /\ prev.completed
    /\ prev.written = MaxItems
    /\ pc = "settled"
    /\ ~aborted
    /\ Len(docs) = MaxItems

\* C3: when the response text does not parse (not the expected JSON, or one
\* element not an Item), no item is accepted, nothing is embedded or written,
\* the collection stays empty, and at the end of the run the failure has been
\* logged by the catch block and no rejection is left unhandled.
GotResponse == HasOp("invoke") /\ "invoke" \notin failed
NonConforming(text) ==
    \/ ~text.json
    \/ \E i \in 1..Len(text.array) : ~Conforms(text.array[i])

C3_ParseFailsClosed ==
    (GotResponse /\ NonConforming(response)) =>
        /\ syntheticData = <<>>
        /\ records = <<>>
        /\ written = 0
        /\ docs = <<>>
        /\ ~HasOp("embed") /\ ~HasOp("insert")
        /\ pc = "settled" =>
            /\ "parse" \in failed
            /\ Line("failed to seed database") \in console
            /\ exc = "none"

C3_Witness ==
    /\ pc = "settled"
    /\ "parse" \in failed
    /\ response.json
    /\ Len(response.array) = 2
    /\ Conforms(response.array[1])
    /\ ~Conforms(response.array[2])
    /\ docs = <<>>

\* createVectorSearchIndex has returned and nothing has run since
IndexProvisioningReturned == pc = "deleteMany"
DropOk == "dropIndexes" \notin failed
CreateOk == DropOk /\ "createSearchIndex" \notin failed
IsRequiredIndex(e) ==
    e.name = "vector_index" /\ e.numDimensions = 768 /\ e.similarity = "cosine"

\* C4 as stated: after createVectorSearchIndex returns, the only index of the
\* collection (the mandatory _id_ index aside) is vector_index with 768
\* dimensions and cosine similarity, whatever was there before and whether or
\* not the drop or the create failed.
C4_AsStated ==
    IndexProvisioningReturned =>
        /\ indexes \subseteq {"_id_"}
        /\ Cardinality(searchIndexes) = 1
        /\ \A e \in searchIndexes : IsRequiredIndex(e)

\* C4 amended: when both the drop and the create succeed, the regular indexes
\* are gone (the mandatory _id_ index aside) and the search indexes are those
\* from before plus vector_index with 768 dimensions and cosine similarity, the
\* only index of that name; when the drop fails nothing is created and the
\* indexes are as before; when the create fails no search index is added; in
\* both failure cases the error is swallowed.
C4_Amended ==
    IndexProvisioningReturned =>
        /\ exc = "none"
        /\ CreateOk =>
            /\ indexes \subseteq {"_id_"}
            /\ \E e \in searchIndexes :
                /\ IsRequiredIndex(e)
                /\ searchIndexes = idxBefore[2] \cup {e}
            /\ \A e \in searchIndexes : e.name = "vector_index" => IsRequiredIndex(e)
        /\ ~DropOk =>
            /\ <<indexes, searchIndexes>> = idxBefore
            /\ ~HasOp("createSearchIndex")
        /\ (DropOk /\ ~CreateOk) =>
            /\ indexes \subseteq {"_id_"}
            /\ searchIndexes = idxBefore[2]

C4_Witness ==
    /\ IndexProvisioningReturned
    /\ CreateOk
    /\ "brand_1" \in idxBefore[1]
    /\ idxBefore[2] = {OtherSearchIdx}
    /\ Cardinality(searchIndexes) = 2

\* C5: a rejection of dropIndexes or createSearchIndex is caught and logged in
\* createVectorSearchIndex and the run goes on with deleteMany, without
\* entering the catch block of seedDatabase; a rejection of any other call of
\* the try block goes to that catch block, which ends the run.
NewFailures == failed' \ failed
C5_OnlyIndexFailureSwallowed ==
    /\ [][(NewFailures # {} /\ NewFailures \subseteq IndexStages)
            => (pc' = "indexCatch" /\ ~aborted')]_vars
    /\ [][pc = "indexCatch"
            => /\ pc' = "deleteMany"
               /\ exc' = "none"
               /\ ~aborted'
               /\ Line("Error creating vector search index:") \in console']_vars
    /\ [][(NewFailures # {} /\ ~(NewFailures \subseteq IndexStages \cup {"close"}))
            => pc' = "catch"]_vars
    /\ [][pc = "catch" => (aborted' /\ pc' = "finally")]_vars
    /\ []((pc \in {"deleteMany", "invoke", "parse", "summarize", "persist"}
            \/ (pc \in {"finally", "settled"} /\ ~aborted))
          => failed \subseteq IndexStages \cup {"close"})

C5_Witness ==
    /\ pc = "settled"
    /\ ~aborted
    /\ "createSearchIndex" \in failed
    /\ Line("Error creating vector search index:") \in console
    /\ written = MaxItems
    /\ Len(docs) = MaxItems

\* C6: once a call other than the two index calls (and other than close) has
\* rejected, it is the only such rejection of the run, no call was issued
\* twice or out of source order, the rejected call is the last one issued
\* before close, the run is in its catch/teardown part, and the collection
\* holds what had been written: when the k-th item's embedding or insert
\* rejected, exactly the first k-1 items of the batch.
Fatal == failed \ (IndexStages \cup {"close"})
FatalOp(s) == IF s = "parse" THEN "invoke" ELSE s
LastBeforeClose ==
    IF ops[Len(ops)][1] = "close" THEN ops[Len(ops) - 1] ELSE ops[Len(ops)]

C6_FailureStopsRun ==
    Fatal # {} =>
        /\ Cardinality(Fatal) = 1
        /\ InSourceOrder
        /\ \A s \in Fatal :
            /\ LastBeforeClose[1] = FatalOp(s)
            /\ s \in {"embed", "insert"} =>
                /\ failedItem \in 1..Len(response.array)
                /\ LastBeforeClose[2] = failedItem
                /\ written = failedItem - 1
                /\ Len(docs) = failedItem - 1
                /\ \A j \in 1..Len(docs) : ExpectedDoc(response.array[j], docs[j])
            /\ s \notin {"embed", "insert"} => written = 0
        /\ inflight = {}
        /\ pc \in {"catch", "finally", "topCatch", "settled"}
        /\ pc # "catch" => Line("failed to seed database") \in console

C6_Witness ==
    /\ pc = "settled"
    /\ "embed" \in failed
    /\ failedItem = 2
    /\ Len(docs) = 1
    /\ Len(response.array) >= 2

\* C7: at most one fromDocuments call is awaited at any moment; the call for
\* item i is issued only after the calls for items 1..i-1 have completed, and
\* the documents written by the run are the first items of the batch, in order.
C7_OneAtATime ==
    /\ Cardinality(inflight) <= 1
    /\ \A e \in inflight :
        /\ written = e[1] - 1
        /\ nextIdx = e[1] + 1
    /\ InSourceOrder
    /\ written > 0 =>
        /\ Len(docs) = written
        /\ \A j \in 1..written : docs[j] = StoredDoc(records[j])

C7_Witness ==
    /\ inflight = {<<2, "insert">>}
    /\ written = 1
    /\ Len(docs) = 1

\* C8: the stages of a run follow the linear order Disconnected, Connected,
\* Provisioned, Cleared, Generated, Persisted, Final, one stage at a time; a
\* failure leaves the line for the teardown, which ends in Final. The clear is
\* issued after provisioning and before generation, and every embedding and
\* insert after the clear has completed.
Stage ==
    CASE pc \in {"connect", "ping"} -> "Disconnected"
      [] pc \in {"listCollections", "createCollection", "dropIndexes",
                 "createSearchIndex", "indexCatch"} -> "Connected"
      [] pc = "deleteMany" -> "Provisioned"
      [] pc \in {"invoke", "parse"} -> "Cleared"
      [] pc \in {"summarize", "persist"} -> "Generated"
      [] pc = "finally" /\ ~aborted -> "Persisted"
      [] pc = "catch" \/ (pc = "finally" /\ aborted) -> "Aborted"
      [] pc \in {"topCatch", "settled"} -> "Final"

StageEdges ==
    {<<"Disconnected", "Connected">>, <<"Connected", "Provisioned">>,
     <<"Provisioned", "Cleared">>, <<"Cleared", "Generated">>,
     <<"Generated", "Persisted">>, <<"Persisted", "Final">>}
        \cup {<<st, "Aborted">> : st \in {"Disconnected", "Connected", "Provisioned",
                                         "Cleared", "Generated"}}
        \cup {<<"Aborted", "Final">>}

C8_LinearStages ==
    /\ [][\/ Stage' = Stage
          \/ <<Stage, Stage'>> \in StageEdges
          \/ (Stage = "Final" /\ Stage' = "Disconnected" /\ run' = run + 1)]_vars
    /\ []((written > 0 \/ HasOp("embed") \/ HasOp("invoke")) =>
            /\ HasOp("deleteMany")
            /\ "deleteMany" \notin failed
            /\ docs = <<>> \/ written > 0)
    /\ [](HasOp("deleteMany") =>
            /\ HasOp("listCollections")
            /\ HasOp("dropIndexes")
            /\ PosOf("dropIndexes") < PosOf("deleteMany"))
    /\ [](InSourceOrder)

C8_Witness ==
    /\ pc = "settled"
    /\ ~aborted
    /\ failed = {}
    /\ HasOp("createCollection")
    /\ written = MaxItems

(***************************************************************************)
(* server.ts: startServer and the two routes.  callAgent (./agent) is an   *)
(* opaque async function: it resolves with a result or rejects.            *)
(***************************************************************************)
Messages == {"hello", "any oak desks?"}
AgentResults == {"answer A", "answer B"}

\* const threadId = Date.now().toString()
\* variant: an identifier that differs per request
ThreadIdFresh(r, now) == ToStr(now) \o <<"-">> \o ToStr(r)
ThreadId(r, now) == ToStr(now)

\* res.json({threadId, response})
OnAgentSuccess(q, result) ==
    Append(q.responses,
           [status |-> 200, body |-> [threadId |-> q.threadId, response |-> result]])

\* catch (error) { console.error(...); res.status(500).json({error: ...}) }
\* variant: a catch block that only logs
OnAgentFailureSilent(q) == q.responses
OnAgentFailure(q) ==
    Append(q.responses,
           [status |-> 500, body |-> [error |-> "Failed to start conversation"]])

NewRequest ==
    [st |-> "new", message |-> "", at |-> 0, threadId |-> <<>>, agentCalls |-> <<>>,
     outcome |-> "none", result |-> "", responses |-> <<>>, handler |-> "idle"]

ServerInit ==
    /\ FreshProcess
    /\ run = 1
    /\ prev = [completed |-> FALSE, written |-> 0]
    /\ collExists = FALSE
    /\ docs = <<>>
    /\ indexes = {}
    /\ searchIndexes = {}
    /\ idxBefore = <<{}, {}>>
    /\ srv = "connect"
    /\ clock = MaxClock - 2
    /\ rootReplies = 0
    /\ reqs = [r \in 1..NumReqs |-> NewRequest]

\* await client.connect(); on rejection catch (error) { console.error(error) }
SrvConnect ==
    /\ srv = "connect"
    /\ \E ok \in BOOLEAN : srv' = IF ok THEN "ping" ELSE "caught"
    /\ UNCHANGED <<clock, rootReplies, reqs, seedVars, dbVars>>

\* await client.db("admin").command({ping: 1}); then both routes are registered
SrvPing ==
    /\ srv = "ping"
    /\ \E ok \in BOOLEAN : srv' = IF ok THEN "routes" ELSE "caught"
    /\ UNCHANGED <<clock, rootReplies, reqs, seedVars, dbVars>>

\* time passes
Tick ==
    /\ clock < MaxClock
    /\ clock' = clock + 1
    /\ UNCHANGED <<srv, rootReplies, reqs, seedVars, dbVars>>

\* app.get("/"): res.send(...)
GetRoot ==
    /\ srv = "routes"
    /\ rootReplies < MaxRootReplies
    /\ rootReplies' = rootReplies + 1
    /\ UNCHANGED <<srv, clock, reqs, seedVars, dbVars>>

\* app.post("/chat"): the handler up to `await callAgent(client, initialMessage, threadId)`
ChatBegin(r) ==
    /\ srv = "routes"
    /\ reqs[r].st = "new"
    /\ \E m \in Messages :
        reqs' = [reqs EXCEPT ![r] =
                    [@ EXCEPT !.st = "agent",
                              !.message = m,
                              !.at = clock,
                              !.threadId = ThreadId(r, clock),
                              !.agentCalls = Append(@, [message |-> m,
                                                        threadId |-> ThreadId(r, clock)]),
                              !.handler = "awaiting"]]
    /\ UNCHANGED <<srv, clock, rootReplies, seedVars, dbVars>>

\* callAgent settles: res.json on success, the catch block on rejection
ChatEnd(r) ==
    /\ reqs[r].st = "agent"
    /\ \/ \E result \in AgentResults :
            reqs' = [reqs EXCEPT ![r] =
                        [@ EXCEPT !.st = "done",
                                  !.outcome = "resolved",
                                  !.result = result,
                                  !.responses = OnAgentSuccess(reqs[r], result),
                                  !.handler = "returned"]]
       \/ reqs' = [reqs EXCEPT ![r] =
                        [@ EXCEPT !.st = "done",
                                  !.outcome = "rejected",
                                  !.responses = OnAgentFailure(reqs[r]),
                                  !.handler = "returned"]]
    /\ UNCHANGED <<srv, clock, rootReplies, seedVars, dbVars>>

ServerNext ==
    \/ SrvConnect
    \/ SrvPing
    \/ Tick
    \/ GetRoot
    \/ \E r \in 1..NumReqs : ChatBegin(r)
    \/ \E r \in 1..NumReqs : ChatEnd(r)

ServerSpec == ServerInit /\ [][ServerNext]_vars

\* C9: a POST /chat request gets no response while callAgent is awaited and
\* exactly one when it has settled: 200 with {threadId, response}, carrying the
\* request's threadId and the agent's result, when callAgent resolved; 500 with
\* {error} when it rejected; in both cases the handler returns normally.
C9_ExactlyOneResponse ==
    \A r \in 1..NumReqs :
        /\ Len(reqs[r].responses) <= 1
        /\ reqs[r].st # "done" => reqs[r].responses = <<>>
        /\ reqs[r].st = "done" =>
            /\ Len(reqs[r].responses) = 1
            /\ reqs[r].handler = "returned"
            /\ reqs[r].outcome = "resolved" =>
                /\ reqs[r].responses[1].status = 200
                /\ reqs[r].responses[1].body =
                       [threadId |-> reqs[r].agentCalls[1].threadId,
                        response |-> reqs[r].result]
            /\ reqs[r].outcome = "rejected" =>
                /\ reqs[r].responses[1].status = 500
                /\ DOMAIN reqs[r].responses[1].body = {"error"}

C9_Witness ==
    /\ reqs[1].st = "done" /\ reqs[1].outcome = "resolved"
    /\ reqs[1].responses[1].status = 200
    /\ reqs[2].st = "done" /\ reqs[2].outcome = "rejected"
    /\ reqs[2].responses[1].status = 500

\* C10: the threadId of a request is the decimal string of the clock value read
\* when the handler ran, and it is what callAgent is given; so requests handled
\* at the same clock value have the same threadId.
C10_ThreadIdIsClock ==
    \A r \in 1..NumReqs :
        reqs[r].st # "new" =>
            /\ reqs[r].threadId = ToStr(reqs[r].at)
            /\ Len(reqs[r].agentCalls) = 1
            /\ reqs[r].agentCalls[1].threadId = reqs[r].threadId
            /\ \A q \in 1..NumReqs :
                (reqs[q].st # "new" /\ reqs[q].at = reqs[r].at)
                    => reqs[q].threadId = reqs[r].threadId

\* two requests whose agent calls are both awaited carry the same threadId
C10_Witness ==
    /\ reqs[1].st = "agent"
    /\ reqs[2].st = "agent"
    /\ reqs[1].message # reqs[2].message
    /\ reqs[1].threadId = <<"1", "0">>
    /\ reqs[1].agentCalls[1].threadId = reqs[2].agentCalls[1].threadId

====
